---- MODULE Spec2Model ----
(***************************************************************************)
(* Cloth simulation with Verlet integration (src/main.rs).                 *)
(*                                                                         *)
(* Every f32 of the program is a fixed-point number with Scale units per   *)
(* 1.0, or one of the non-finite values NaN, +Inf, -Inf.  Every arithmetic *)
(* operation rounds its exact result to the nearest unit.  The grid is     *)
(* NUM_ROWS x NUM_COLS (10 x 10 in the source, smaller here).              *)
(* One frame of the main loop is the sequence of phases                    *)
(*   input -> integrate -> forces -> clamp -> (structural -> pins -> drag) *)
(*   x NUM_ITERATIONS -> draw                                              *)
(* and pc names the phase that runs next.                                  *)
(***************************************************************************)
EXTENDS Integers, Sequences, FiniteSets

\* ---------------------------------------------------------------- bounds
Scale == 60
NUM_COLS == 3
NUM_ROWS == 2
NUM_ITERATIONS == 1
MaxFrames == 5
MaxFreeFrames == 12
MaxResizes == 1
MaxSeed == 2

NUM_PARTICLES == NUM_ROWS * NUM_COLS
NUM_CONSTRAINTS == (NUM_ROWS - 1) * NUM_COLS + (NUM_COLS - 1) * NUM_ROWS
cols == NUM_COLS

Particles == 0 .. (NUM_PARTICLES - 1)

\* ------------------------------------------------------------ f32 values
Fin(n) == [k |-> "fin", v |-> n]
NaN == [k |-> "nan", v |-> 0]
Inf(s) == [k |-> "inf", v |-> s]

IsFinite(a) == a.k = "fin"
IsNaN(a) == a.k = "nan"

Abs(n) == IF n < 0 THEN -n ELSE n
Sign(n) == IF n < 0 THEN -1 ELSE 1

\* sign of an f32 value that is not NaN (zero counts as positive)
FSign(a) == IF a.k = "inf" THEN a.v ELSE Sign(a.v)
IsZero(a) == a.k = "fin" /\ a.v = 0

\* n / d rounded to the nearest integer, halves away from zero (d # 0)
RoundDiv(n, d) == Sign(n) * Sign(d) * ((2 * Abs(n) + Abs(d)) \div (2 * Abs(d)))

RECURSIVE SqrtSearch(_, _, _)
SqrtSearch(n, lo, hi) ==
    IF lo >= hi THEN lo
    ELSE LET mid == (lo + hi + 1) \div 2
         IN  IF mid * mid <= n THEN SqrtSearch(n, mid, hi)
             ELSE SqrtSearch(n, lo, mid - 1)

\* square root of n >= 0 rounded to the nearest integer
ISqrt(n) ==
    LET r == SqrtSearch(n, 0, 46340)
    IN  IF n - r * r > r THEN r + 1 ELSE r

\* a decimal literal num/den of the source as an f32
Lit(num, den) == Fin(RoundDiv(num * Scale, den))

FNeg(a) == IF a.k = "nan" THEN NaN ELSE [a EXCEPT !.v = -a.v]

FAdd(a, b) ==
    IF a.k = "nan" \/ b.k = "nan" THEN NaN
    ELSE IF a.k = "fin" /\ b.k = "fin" THEN Fin(a.v + b.v)
    ELSE IF a.k = "inf" /\ b.k = "inf" THEN (IF a.v = b.v THEN a ELSE NaN)
    ELSE IF a.k = "inf" THEN a ELSE b

FSub(a, b) == FAdd(a, FNeg(b))

FMul(a, b) ==
    IF a.k = "nan" \/ b.k = "nan" THEN NaN
    ELSE IF a.k = "fin" /\ b.k = "fin" THEN Fin(RoundDiv(a.v * b.v, Scale))
    ELSE IF IsZero(a) \/ IsZero(b) THEN NaN
    ELSE Inf(FSign(a) * FSign(b))

FDiv(a, b) ==
    IF a.k = "nan" \/ b.k = "nan" THEN NaN
    ELSE IF a.k = "inf" /\ b.k = "inf" THEN NaN
    ELSE IF a.k = "inf" THEN Inf(FSign(a) * FSign(b))
    ELSE IF b.k = "inf" THEN Fin(0)
    ELSE IF b.v = 0 THEN (IF a.v = 0 THEN NaN ELSE Inf(Sign(a.v)))
    ELSE Fin(RoundDiv(a.v * Scale, b.v))

FSqrt(a) ==
    IF a.k = "nan" THEN NaN
    ELSE IF a.k = "inf" THEN (IF a.v > 0 THEN a ELSE NaN)
    ELSE IF a.v < 0 THEN NaN
    ELSE Fin(ISqrt(a.v * Scale))

FAbs(a) == IF a.k = "nan" THEN NaN ELSE [a EXCEPT !.v = Abs(a.v)]

\* a < b on f32: false as soon as one side is NaN
FLt(a, b) ==
    IF a.k = "nan" \/ b.k = "nan" THEN FALSE
    ELSE IF a.k = "fin" /\ b.k = "fin" THEN a.v < b.v
    ELSE IF a.k = "inf" /\ b.k = "inf" THEN a.v < b.v
    ELSE IF a.k = "inf" THEN a.v < 0
    ELSE b.v > 0

\* ------------------------------------------------------------------ Vec3
Vec3(x, y, z) == [x |-> x, y |-> y, z |-> z]
Zero3 == Vec3(Fin(0), Fin(0), Fin(0))

add(a, b) == Vec3(FAdd(a.x, b.x), FAdd(a.y, b.y), FAdd(a.z, b.z))
sub(a, b) == Vec3(FSub(a.x, b.x), FSub(a.y, b.y), FSub(a.z, b.z))
mul(a, s) == Vec3(FMul(a.x, s), FMul(a.y, s), FMul(a.z, s))

length(a) == FSqrt(FAdd(FAdd(FMul(a.x, a.x), FMul(a.y, a.y)), FMul(a.z, a.z)))
distance(a, b) == length(sub(a, b))

clamp(value, min, max) ==
    IF FLt(value, min) THEN min
    ELSE IF FLt(max, value) THEN max
    ELSE value

vclamp(value, min, max) ==
    Vec3(clamp(value.x, min.x, max.x),
         clamp(value.y, min.y, max.y),
         clamp(value.z, min.z, max.z))

\* random_f32: u is the fraction in [0,1) that the random bits encode
random_f32(min, max, u) ==
    LET f == FSub(FAdd(Fin(Scale), u), Fin(Scale))
        span == FAbs(FSub(max, min))
    IN  FAdd(FMul(f, span), min)

\* --------------------------------------------------------------- constants
START_DISTANCE == Lit(20, 1)
PARTICLE_RADIUS == Lit(3, 1)
INTERSECT_THRESHOLD == FAdd(PARTICLE_RADIUS, Lit(3, 1))
REST_LENGTH == Lit(20, 1)
gravity == Vec3(Fin(0), FMul(Lit(10, 1), Lit(982, 100)), Fin(0))
time_step == Lit(1666667, 100000000)
Half == Lit(5, 10)

\* ------------------------------------------------------ external inputs
\* display sizes that screen_width() / screen_height() may report
Display(w, h) == [w |-> Lit(w, 1), h |-> Lit(h, 1)]
DisplaySizes == {Display(100, 90), Display(40, 30)}
FreeDisplaySizes == {Display(100, 90), Display(100, 44)}

\* pointer positions that mouse_position() may report
MousePoints == {Vec3(Lit(50, 1), Lit(45, 1), Fin(0)),
                Vec3(Lit(70, 1), Lit(65, 1), Fin(0))}

\* rand::rand(): the fraction encoded by the k-th value of the stream of a seed
RandFraction(seed, k) == Fin((seed * 17 + k * 23) % Scale)

\* ------------------------------------------------------------------ state
VARIABLES pos, old_pos, forces, constraints, point_constraints,
          holding_particle, held_constraint,
          mouse_down, mouse_vec, screen, pc, frame, iter, resizes,
          was_holding

\* was_holding is holding_particle as the input phase of the frame found it
vars == <<pos, old_pos, forces, constraints, point_constraints,
          holding_particle, held_constraint,
          mouse_down, mouse_vec, screen, pc, frame, iter, resizes,
          was_holding>>

Constraint(a, b, len) == [idx_1 |-> a, idx_2 |-> b, rest_length |-> len]
PointConstraint(i, pt) == [idx |-> i, point |-> pt]
DefaultConstraint == Constraint(0, 0, Fin(0))

\* -------------------------------------------------------- initialization
\* the loop of lines 172-184 for one particle
InitialPosition(p, scr, seed) ==
    LET row == Fin((p \div cols) * Scale)
        col == Fin((p % cols) * Scale)
        x0 == FDiv(scr.w, Lit(2, 1))
        y0 == FDiv(scr.h, Lit(2, 1))
        jx == random_f32(Lit(-1, 1), Lit(1, 1), RandFraction(seed, 2 * p))
        jy == random_f32(Lit(-1, 1), Lit(1, 1), RandFraction(seed, 2 * p + 1))
    IN  Vec3(FAdd(x0, FAdd(FMul(col, START_DISTANCE), jx)),
             FAdd(y0, FAdd(FMul(row, START_DISTANCE), jy)),
             Fin(0))

HorizontalCount == NUM_ROWS * (NUM_COLS - 1)
VerticalCount == NUM_COLS * (NUM_ROWS - 1)

\* idx_2 of the edge that starts at p_idx
HorizontalNeighbour(p_idx) == p_idx + 1
\* mutant: the vertical loop links the right neighbour as the horizontal one
VerticalNeighbourRight(p_idx) == p_idx + 1
VerticalNeighbour(p_idx) == p_idx + NUM_COLS

\* the k-th pass through the body of the horizontal loops (p_x outer, p_y inner)
RECURSIVE HorizontalLoop(_, _, _)
HorizontalLoop(cs, c_idx, k) ==
    IF k >= HorizontalCount THEN cs
    ELSE LET p_x == k \div (NUM_COLS - 1)
             p_y == k % (NUM_COLS - 1)
             p_idx == p_x * NUM_COLS + p_y
         IN  HorizontalLoop(
                 [cs EXCEPT ![c_idx] =
                     Constraint(p_idx, HorizontalNeighbour(p_idx), REST_LENGTH)],
                 c_idx + 1, k + 1)

\* the k-th pass through the body of the vertical loops (p_y outer, p_x inner)
RECURSIVE VerticalLoop(_, _, _)
VerticalLoop(cs, c_idx, k) ==
    IF k >= VerticalCount THEN cs
    ELSE LET p_y == k \div (NUM_ROWS - 1)
             p_x == k % (NUM_ROWS - 1)
             p_idx == p_x * NUM_COLS + p_y
         IN  VerticalLoop(
                 [cs EXCEPT ![c_idx] =
                     Constraint(p_idx, VerticalNeighbour(p_idx), REST_LENGTH)],
                 c_idx + 1, k + 1)

GenerateConstraints ==
    LET empty == [c \in 0 .. (NUM_CONSTRAINTS - 1) |-> DefaultConstraint]
        horizontal == HorizontalLoop(empty, 0, 0)
    IN  VerticalLoop(horizontal, HorizontalCount, 0)

InitialPins(p) ==
    << PointConstraint(0, p[0]),
       PointConstraint(NUM_COLS \div 2, p[NUM_COLS \div 2]),
       PointConstraint(NUM_COLS - 1, p[NUM_COLS - 1]) >>

InitWith(displays, pinned) ==
    \E scr \in displays, seed \in 1 .. MaxSeed :
        /\ screen = scr
        /\ pos = [p \in Particles |-> InitialPosition(p, scr, seed)]
        /\ old_pos = pos
        /\ forces = [p \in Particles |-> Zero3]
        /\ constraints = GenerateConstraints
        /\ point_constraints = IF pinned THEN InitialPins(pos) ELSE << >>
        /\ holding_particle = FALSE
        /\ held_constraint = PointConstraint(0, Zero3)
        /\ mouse_down = FALSE
        /\ mouse_vec = Zero3
        /\ pc = "input"
        /\ frame = 1
        /\ iter = 0
        /\ resizes = 0
        /\ was_holding = FALSE

Init == InitWith(DisplaySizes, TRUE)

\* ------------------------------------------------------------ input phase
WithinThreshold(mouse, q) == FLt(distance(mouse, q), INTERSECT_THRESHOLD)

\* mutant: the scan keeps going after a match, the last match wins
RECURSIVE ScanNoBreak(_, _, _)
ScanNoBreak(ps, mouse, p) ==
    IF p >= NUM_PARTICLES THEN NUM_PARTICLES
    ELSE IF ScanNoBreak(ps, mouse, p + 1) < NUM_PARTICLES
         THEN ScanNoBreak(ps, mouse, p + 1)
    ELSE IF WithinThreshold(mouse, ps[p]) THEN p
    ELSE NUM_PARTICLES

\* the scan of lines 225-233 from particle p on: the particle it breaks at,
\* NUM_PARTICLES when it runs to the end
RECURSIVE Scan(_, _, _)
Scan(ps, mouse, p) ==
    IF p >= NUM_PARTICLES THEN NUM_PARTICLES
    ELSE IF WithinThreshold(mouse, ps[p]) THEN p
    ELSE Scan(ps, mouse, p + 1)

\* mutant: the scan runs in every frame whose button is down
HeldAfterDownRescan(holding, held, ps, mouse) ==
    IF Scan(ps, mouse, 0) < NUM_PARTICLES
    THEN PointConstraint(Scan(ps, mouse, 0), mouse)
    ELSE PointConstraint(held.idx, mouse)

\* held_constraint after the branch of a frame whose button is down
HeldAfterDown(holding, held, ps, mouse) ==
    IF ~holding
    THEN IF Scan(ps, mouse, 0) < NUM_PARTICLES
         THEN PointConstraint(Scan(ps, mouse, 0), mouse)
         ELSE held
    ELSE PointConstraint(held.idx, mouse)

\* holding_particle after the branch of a frame whose button is down
HoldingAfterDown(holding, ps, mouse) ==
    IF ~holding THEN Scan(ps, mouse, 0) < NUM_PARTICLES ELSE holding

\* mutant: the release branch does not reset the flag
HoldingAfterUpKept(holding) == holding

\* holding_particle after the branch of a frame whose button is up
HoldingAfterUp(holding) == FALSE

InputDown ==
    /\ pc = "input"
    /\ \E mouse \in MousePoints :
        /\ mouse_down' = TRUE
        /\ mouse_vec' = mouse
        /\ holding_particle' = HoldingAfterDown(holding_particle, pos, mouse)
        /\ held_constraint' =
               HeldAfterDown(holding_particle, held_constraint, pos, mouse)
    /\ was_holding' = holding_particle
    /\ pc' = "integrate"
    /\ UNCHANGED <<pos, old_pos, forces, constraints, point_constraints,
                   screen, frame, iter, resizes>>

InputUp ==
    /\ pc = "input"
    /\ mouse_down' = FALSE
    /\ holding_particle' = HoldingAfterUp(holding_particle)
    /\ was_holding' = holding_particle
    /\ pc' = "integrate"
    /\ UNCHANGED <<pos, old_pos, forces, constraints, point_constraints,
                   held_constraint, mouse_vec, screen, frame, iter, resizes>>

\* ----------------------------------------------------------- update phase
\* mutant: the implicit velocity has the wrong sign
VerletPositionReversed(p, old, force) ==
    add(p, add(sub(old, p), mul(mul(force, time_step), time_step)))

\* pos[p] after line 248
VerletPosition(p, old, force) ==
    add(p, add(sub(p, old), mul(mul(force, time_step), time_step)))

\* old_pos[p] after line 249
VerletOldPosition(p, old) == p

Integrate ==
    /\ pc = "integrate"
    /\ pos' = [p \in Particles |-> VerletPosition(pos[p], old_pos[p], forces[p])]
    /\ old_pos' = [p \in Particles |-> VerletOldPosition(pos[p], old_pos[p])]
    /\ pc' = "forces"
    /\ UNCHANGED <<forces, constraints, point_constraints, holding_particle,
                   held_constraint, mouse_down, mouse_vec, screen, frame,
                   iter, resizes, was_holding>>

AccumulateForces ==
    /\ pc = "forces"
    /\ forces' = [p \in Particles |-> gravity]
    /\ pc' = "clamp"
    /\ UNCHANGED <<pos, old_pos, constraints, point_constraints,
                   holding_particle, held_constraint, mouse_down, mouse_vec,
                   screen, frame, iter, resizes, was_holding>>

\* mutant: both axes are clamped to the width
ClampToScreenWidth(p, scr) ==
    vclamp(p, Vec3(Fin(0), Fin(0), Fin(0)), Vec3(scr.w, scr.w, Fin(0)))

\* pos[p] after line 259 with the display size scr
ClampToScreen(p, scr) ==
    vclamp(p, Vec3(Fin(0), Fin(0), Fin(0)), Vec3(scr.w, scr.h, Fin(0)))

LoopEntry == IF 0 < NUM_ITERATIONS THEN "structural" ELSE "draw"

\* the clamp with the display size scr
ClampWith(scr) ==
    /\ pc = "clamp"
    /\ screen' = scr
    /\ pos' = [p \in Particles |-> ClampToScreen(pos[p], scr)]
    /\ iter' = 0
    /\ pc' = LoopEntry
    /\ UNCHANGED <<old_pos, forces, constraints, point_constraints,
                   holding_particle, held_constraint, mouse_down, mouse_vec,
                   frame, was_holding>>

\* the display kept the size of the frame before
BoundaryClamp == ClampWith(screen) /\ UNCHANGED resizes

\* the display was resized since the frame before
BoundaryClampResized ==
    /\ resizes < MaxResizes
    /\ resizes' = resizes + 1
    /\ \E scr \in DisplaySizes \ {screen} : ClampWith(scr)

\* delta_len of line 269
DeltaLen(delta) ==
    FSqrt(FAdd(FAdd(FAdd(FMul(delta.x, delta.x), FMul(delta.y, delta.y)),
                    delta.z), delta.z))

\* diff_len of line 270
DiffLen(delta_len, rest_length) ==
    FDiv(FSub(delta_len, rest_length), delta_len)

\* positions after lines 264-273 for the constraint con
Correct(ps, con) ==
    LET p1 == ps[con.idx_1]
        p2 == ps[con.idx_2]
        delta == sub(p2, p1)
        delta_len == DeltaLen(delta)
        diff_len == DiffLen(delta_len, con.rest_length)
        moved == [ps EXCEPT ![con.idx_1] = add(@, mul(mul(delta, Half), diff_len))]
    IN  [moved EXCEPT ![con.idx_2] = sub(@, mul(mul(delta, Half), diff_len))]

\* the loop of lines 263-274 from constraint c on
RECURSIVE SatisfyConstraints(_, _, _)
SatisfyConstraints(ps, cs, c) ==
    IF c >= NUM_CONSTRAINTS THEN ps
    ELSE SatisfyConstraints(Correct(ps, cs[c]), cs, c + 1)

Structural ==
    /\ pc = "structural"
    /\ pos' = SatisfyConstraints(pos, constraints, 0)
    /\ pc' = "pins"
    /\ UNCHANGED <<old_pos, forces, constraints, point_constraints,
                   holding_particle, held_constraint, mouse_down, mouse_vec,
                   screen, frame, iter, resizes, was_holding>>

\* mutant: the loop leaves out the first pin
RECURSIVE EnforcePinsAfterFirst(_, _, _)
EnforcePinsAfterFirst(ps, pins, n) ==
    IF n > Len(pins) THEN ps
    ELSE EnforcePinsAfterFirst(
             IF n = 1 THEN ps ELSE [ps EXCEPT ![pins[n].idx] = pins[n].point],
             pins, n + 1)

\* the loop of lines 276-278 from the n-th pin on
RECURSIVE EnforcePins(_, _, _)
EnforcePins(ps, pins, n) ==
    IF n > Len(pins) THEN ps
    ELSE EnforcePins([ps EXCEPT ![pins[n].idx] = pins[n].point], pins, n + 1)

PinEnforce ==
    /\ pc = "pins"
    /\ pos' = EnforcePins(pos, point_constraints, 1)
    /\ pc' = "drag"
    /\ UNCHANGED <<old_pos, forces, constraints, point_constraints,
                   holding_particle, held_constraint, mouse_down, mouse_vec,
                   screen, frame, iter, resizes, was_holding>>

\* mutant: the guard is inverted
EnforceDragInverted(ps, holding, held) ==
    IF ~holding THEN [ps EXCEPT ![held.idx] = held.point] ELSE ps

\* positions after lines 280-282
EnforceDrag(ps, holding, held) ==
    IF holding THEN [ps EXCEPT ![held.idx] = held.point] ELSE ps

DragEnforce ==
    /\ pc = "drag"
    /\ pos' = EnforceDrag(pos, holding_particle, held_constraint)
    /\ iter' = iter + 1
    /\ pc' = IF iter + 1 < NUM_ITERATIONS THEN "structural" ELSE "draw"
    /\ UNCHANGED <<old_pos, forces, constraints, point_constraints,
                   holding_particle, held_constraint, mouse_down, mouse_vec,
                   screen, frame, resizes, was_holding>>

\* draw and next_frame().await: the state is only read; at most limit frames
Draw(limit) ==
    /\ pc = "draw"
    /\ frame < limit
    /\ frame' = frame + 1
    /\ pc' = "input"
    /\ UNCHANGED <<pos, old_pos, forces, constraints, point_constraints,
                   holding_particle, held_constraint, mouse_down, mouse_vec,
                   screen, iter, resizes, was_holding>>

NextFrame == Draw(MaxFrames)

Next ==
    \/ InputDown
    \/ InputUp
    \/ Integrate
    \/ AccumulateForces
    \/ BoundaryClamp
    \/ BoundaryClampResized
    \/ Structural
    \/ PinEnforce
    \/ DragEnforce
    \/ NextFrame

Spec == Init /\ [][Next]_vars

\* ------------------------------------------- the configuration without pins
\* no pin constraint, the button never down, a display that is not resized
InitFree == InitWith(FreeDisplaySizes, FALSE)

NextFrameFree == Draw(MaxFreeFrames)

NextFree ==
    \/ InputUp
    \/ Integrate
    \/ AccumulateForces
    \/ BoundaryClamp
    \/ Structural
    \/ PinEnforce
    \/ DragEnforce
    \/ NextFrameFree

SpecFree == InitFree /\ [][NextFree]_vars

\* ------------------------------------------------------------- properties
PinCount == Len(point_constraints)
PinIds == {point_constraints[n].idx : n \in 1 .. PinCount}

EndOfFrame == pc = "draw"

\* the state a relaxation iteration leaves behind
EndOfIteration == iter >= 1 /\ pc \in {"structural", "draw"}

Finite3(a) == IsFinite(a.x) /\ IsFinite(a.y) /\ IsFinite(a.z)

FLe(a, b) == FLt(a, b) \/ (a = b /\ ~IsNaN(a))

InBounds(a, scr) ==
    /\ FLe(Fin(0), a.x) /\ FLe(a.x, scr.w)
    /\ FLe(Fin(0), a.y) /\ FLe(a.y, scr.h)

Hits(mouse, ps) == {p \in Particles : WithinThreshold(mouse, ps[p])}

Lowest(S) == CHOOSE p \in S : \A q \in S : p <= q

\* C1 as stated: at the end of every frame every pinned particle is at its
\* pin target, whatever the pointer and the button did.
C1_PinDominanceAlways ==
    EndOfFrame =>
        \A n \in 1 .. PinCount :
            pos[point_constraints[n].idx] = point_constraints[n].point

\* C1 amended: at the end of every frame every pinned particle that is not the
\* particle held by the active drag constraint is at its pin target.
C1_PinDominance ==
    EndOfFrame =>
        \A n \in 1 .. PinCount :
            \/ holding_particle /\ held_constraint.idx = point_constraints[n].idx
            \/ pos[point_constraints[n].idx] = point_constraints[n].point

\* a frame with gravity in which a free particle is dragged and every pin holds
C1_Witness ==
    /\ EndOfFrame
    /\ frame >= 3
    /\ PinCount = 3
    /\ holding_particle
    /\ held_constraint.idx \notin PinIds
    /\ pos[held_constraint.idx] = held_constraint.point
    /\ forces[0] = gravity
    /\ \A n \in 1 .. PinCount :
           pos[point_constraints[n].idx] = point_constraints[n].point

\* C2: whenever the drag constraint is active on a pinned particle, that
\* particle is at the drag target, which is the pointer position, at the end
\* of every relaxation iteration and so at the end of the frame.
C2_DragDominance ==
    (EndOfIteration /\ holding_particle /\ held_constraint.idx \in PinIds) =>
        /\ pos[held_constraint.idx] = held_constraint.point
        /\ held_constraint.point = mouse_vec

\* a pinned particle is held away from its pin target
C2_Witness ==
    /\ EndOfFrame
    /\ holding_particle
    /\ \E n \in 1 .. PinCount :
           /\ point_constraints[n].idx = held_constraint.idx
           /\ point_constraints[n].point # held_constraint.point
           /\ pos[held_constraint.idx] = held_constraint.point

\* C3: the input phase of a frame that starts Idle with the button down ends
\* Holding exactly when some particle is closer than INTERSECT_THRESHOLD to
\* the pointer; it then holds the lowest such id with the pointer as target,
\* and otherwise leaves the drag constraint as it was.
C3_Acquisition ==
    [][(pc = "input" /\ ~holding_particle /\ mouse_down') =>
          LET hits == Hits(mouse_vec', pos)
          IN  /\ holding_particle' <=> hits # {}
              /\ hits # {} =>
                    held_constraint' = PointConstraint(Lowest(hits), mouse_vec')
              /\ hits = {} => held_constraint' = held_constraint]_vars

\* an acquisition with two particles within the threshold
C3_Witness ==
    /\ pc = "integrate"
    /\ ~was_holding
    /\ mouse_down
    /\ holding_particle
    /\ held_constraint.point = mouse_vec
    /\ \E p \in Hits(mouse_vec, pos) : p > held_constraint.idx

\* C4: the input phase of a frame that starts Holding with the button down
\* ends Holding with the same particle id and the pointer as target.
C4_StickyHold ==
    [][(pc = "input" /\ holding_particle /\ mouse_down') =>
          /\ holding_particle'
          /\ held_constraint' = PointConstraint(held_constraint.idx, mouse_vec')]_vars

\* a hold goes on while a lower id is within the threshold and the held
\* particle is not
C4_Witness ==
    /\ pc = "integrate"
    /\ was_holding
    /\ mouse_down
    /\ holding_particle
    /\ held_constraint.idx \notin Hits(mouse_vec, pos)
    /\ \E p \in Hits(mouse_vec, pos) : p < held_constraint.idx

\* C5: the input phase of a frame whose button is up ends Idle, the drag
\* enforcement of such a frame changes no position, and the state is Holding
\* after an input phase only if the button was down in it.
C5_Release ==
    [][/\ (pc = "input" /\ ~mouse_down') => ~holding_particle'
       /\ (pc = "drag" /\ ~mouse_down) => pos' = pos
       /\ holding_particle' => mouse_down']_vars

\* a hold was released and the frame ran to its end
C5_Witness ==
    /\ EndOfFrame
    /\ was_holding
    /\ ~mouse_down
    /\ ~holding_particle
    /\ pos[held_constraint.idx] # held_constraint.point

\* C6 as stated: no coordinate of a particle position is ever non-finite
\* (a constraint between coinciding particles is skipped).
C6_NoNonFinite == \A p \in Particles : Finite3(pos[p])

C8_VerletStep ==
    [][pc = "integrate" =>
          /\ old_pos' = pos
          /\ \A p \in Particles :
                pos'[p] = add(add(pos[p], sub(pos[p], old_pos[p])),
                              mul(mul(forces[p], time_step), time_step))
          /\ frame = 1 => pos' = pos]_vars

\* an integration phase that moved a particle under gravity
C8_Witness ==
    /\ pc = "forces"
    /\ frame >= 2
    /\ \E p \in Particles :
           /\ Finite3(pos[p])
           /\ forces[p] = gravity
           /\ pos[p] # old_pos[p]
           /\ pos[p] # add(old_pos[p], mul(mul(gravity, time_step), time_step))

\* C9: the clamp phase puts x of every particle into [0,width] and y into
\* [0,height] axis by axis (a value below the range becomes 0, one above it
\* the upper end, one within it stays), and leaves z unchanged.
C9_BoundaryClamp ==
    [][pc = "clamp" =>
          \A p \in Particles :
              /\ pos'[p].x = IF FLt(pos[p].x, Fin(0)) THEN Fin(0)
                             ELSE IF FLt(screen'.w, pos[p].x) THEN screen'.w
                             ELSE pos[p].x
              /\ pos'[p].y = IF FLt(pos[p].y, Fin(0)) THEN Fin(0)
                             ELSE IF FLt(screen'.h, pos[p].y) THEN screen'.h
                             ELSE pos[p].y
              /\ pos'[p].z = pos[p].z
              /\ Finite3(pos[p]) => InBounds(pos'[p], screen')
              /\ InBounds(pos[p], screen') => pos'[p] = pos[p]]_vars

\* the clamp moved one particle on the x axis only and another on the y axis
\* only
C9_Witness ==
    /\ pc = "structural"
    /\ iter = 0
    /\ \E p, q \in Particles :
           /\ pos[p].x = screen.w /\ FLt(screen.w, old_pos[p].x)
           /\ FLt(pos[p].y, screen.h) /\ FLt(Fin(0), pos[p].y)
           /\ pos[q].y = screen.h /\ FLt(screen.h, old_pos[q].y)
           /\ FLt(pos[q].x, screen.w) /\ FLt(Fin(0), pos[q].x)

SameRow(a, b) == a \div NUM_COLS = b \div NUM_COLS
GridEdges ==
    {<<a, b>> \in Particles \X Particles :
        \/ b = a + 1 /\ SameRow(a, b)
        \/ b = a + NUM_COLS}

ConstraintSlots == 0 .. (NUM_CONSTRAINTS - 1)

\* C10: the constraint array always holds each horizontal and each vertical
\* neighbour pair of the grid exactly once, with valid distinct ids and rest
\* length 20, in (rows-1)*cols + (cols-1)*rows slots none of which keeps its
\* default value, and no step changes it.
C10_ConstraintSet ==
    /\ [](/\ DOMAIN constraints = ConstraintSlots
          /\ Cardinality(ConstraintSlots) =
                 (NUM_ROWS - 1) * NUM_COLS + (NUM_COLS - 1) * NUM_ROWS
          /\ \A c \in ConstraintSlots :
                 /\ constraints[c] # DefaultConstraint
                 /\ constraints[c].idx_1 \in Particles
                 /\ constraints[c].idx_2 \in Particles
                 /\ constraints[c].idx_1 # constraints[c].idx_2
                 /\ <<constraints[c].idx_1, constraints[c].idx_2>> \in GridEdges
                 /\ constraints[c].rest_length = Fin(20 * Scale)
          /\ \A c, d \in ConstraintSlots :
                 c # d =>
                    {constraints[c].idx_1, constraints[c].idx_2} #
                    {constraints[d].idx_1, constraints[d].idx_2}
          /\ \A e \in GridEdges :
                 \E c \in ConstraintSlots :
                    <<constraints[c].idx_1, constraints[c].idx_2>> = e)
    /\ [][constraints' = constraints]_vars

\* frames have run over the constraint array
C10_Witness ==
    /\ EndOfFrame
    /\ frame >= 2
    /\ \E p \in Particles : pos[p] # old_pos[p]

====
